---------------------------- MODULE Spec2Model ----------------------------
(***************************************************************************)
(* Segment storage and lifecycle layer of tantivy:                         *)
(*   src/src/core/segment.rs           SegmentDirectory, Segment           *)
(*   src/src/indexer/segment_entry.rs  SegmentEntry                        *)
(* Segment values live in slots (a slot is one binding of a Segment value; *)
(* with_max_doc / with_delete_meta consume the value and rebind the slot). *)
(* Directories are references to stores: a clone of a SegmentDirectory     *)
(* refers to the same store.                                               *)
(***************************************************************************)
EXTENDS Integers, Sequences, FiniteSets, TLC

(* ------------------------------ bounds -------------------------------- *)
NumIds        == 2   \* segment ids in play
NumIndexes    == 1   \* indexes, each with a durable ManagedDirectory
MaxDoc        == 1   \* largest max_doc / num_deleted_docs argument
MaxOpstamp    == 1   \* largest opstamp argument
MaxLen        == 2   \* bytes written through one write handle
MaxSegments   == 2   \* Segment slots
MaxHandles    == 1   \* write handles held at once
MaxCursor     == 1   \* last position of the delete log

SegmentIds   == 1..NumIds
\* two members of the SegmentComponent enumeration, in its order
ComponentList == <<"POSTINGS", "STORE">>
Components   == { ComponentList[i] : i \in 1..Len(ComponentList) }
Indexes      == 1..NumIndexes
\* the schema of each index, and 0: a schema of no index
Schemas      == {0} \cup Indexes
Slots        == 1..MaxSegments
\* the one SegmentEntry
EntrySlots   == {1}
HandleSlots  == 1..MaxHandles
Docs         == 0..MaxDoc
Opstamps     == 0..MaxOpstamp
\* the layer never looks at a byte: two values tell sequences apart
Bytes        == {0, 1}
\* stores 1..NumIndexes are the indexes' durable directories, the others are
\* the RAM directories in the order RAMDirectory::create hands them out (a
\* Segment slot embeds at most one)
Stores       == 1..(NumIndexes + MaxSegments)

(* ------------------------------ options ------------------------------- *)
None     == <<>>
Some(x)  == <<x>>
IsSome(o) == o # <<>>
Unwrap(o) == o[1]

Ok(v)    == [ok |-> TRUE, val |-> v]
Err(e)   == [ok |-> FALSE, err |-> e]

(* --------------------------- SegmentMeta ------------------------------ *)
\* crate::core::SegmentMeta is not part of the sources at hand
SegmentMeta(id, max_doc, num_deleted_docs, opstamp) ==
    [id |-> id, max_doc |-> max_doc,
     num_deleted_docs |-> num_deleted_docs, opstamp |-> opstamp]

\* the metas a caller can hand in: descriptors that satisfy the data model
ValidMetas ==
    { m \in [id : SegmentIds, max_doc : Docs,
             num_deleted_docs : Docs, opstamp : Opstamps] :
        m.num_deleted_docs <= m.max_doc }

SegmentMeta_id(meta) == meta.id

SegmentMeta_with_max_doc(meta, max_doc) ==
    [meta EXCEPT !.max_doc = max_doc]

SegmentMeta_with_delete_meta(meta, num_deleted_docs, opstamp) ==
    [meta EXCEPT !.num_deleted_docs = num_deleted_docs, !.opstamp = opstamp]

\* joins the segment id with the extension of the component
SegmentMeta_relative_path(meta, component) == <<meta.id, component>>

Paths == SegmentIds \X Components

(* ----------------------------- Directory ------------------------------ *)
\* the Directory capability (RAMDirectory, ManagedDirectory) is external;
\* a store maps a path to None (no file) or Some(bytes)
EmptyStore == [p \in Paths |-> None]

Directory_open_read(store, path) ==
    IF IsSome(store[path]) THEN Ok(Unwrap(store[path]))
    ELSE Err("NotFound")

\* the file is created empty when the handle is handed out
Directory_open_write(store, path) ==
    IF IsSome(store[path]) THEN Err("FileAlreadyExists")
    ELSE Ok([store EXCEPT ![path] = Some(<<>>)])

IndexDirectory(index) == index
IndexSchema(index) == index
RAMDirectory_create(n) == NumIndexes + n + 1

(* -------------------------- SegmentDirectory -------------------------- *)
SegmentDirectory_Persisted(dir) == [variant |-> "Persisted", store |-> dir]
SegmentDirectory_Volatile(dir)  == [variant |-> "Volatile", store |-> dir]

\* Deref / DerefMut: the store of whichever variant is active
SegmentDirectory_deref(directory) == directory.store


(* ------------------------------- state -------------------------------- *)
VARIABLES
    seg,        \* Segment slot -> None | Some(Segment)
    root,       \* Segment slot -> the slot its value was first created in
    ramCount,   \* RAM directories created so far
    fs,         \* store -> path -> None | Some(bytes)
    handles,    \* handle slot -> None | Some(write handle)
    opened,     \* <<root slot, component>> pairs open_write has succeeded on
    entry,      \* SegmentEntry slot -> None | Some(SegmentEntry)
    reader,     \* the session of a reader going through an entry's components
    last        \* the operation that ran last, its arguments and its result

vars == <<seg, root, ramCount, fs, handles, opened, entry, reader, last>>

(* ------------------------------ Segment ------------------------------- *)
Segment_schema(self) == self.schema

\* the persisted argument obeyed: a segment that is not persisted gets a
\* Volatile directory
Segment_for_index_by_flag(index, meta, persisted) ==
    [directory |-> IF persisted
                   THEN SegmentDirectory_Persisted(IndexDirectory(index))
                   ELSE SegmentDirectory_Volatile(IndexDirectory(index)),
     schema    |-> IndexSchema(index),
     meta      |-> meta]

Segment_for_index(index, meta, persisted) ==
    [directory |-> SegmentDirectory_Persisted(IndexDirectory(index)),
     schema    |-> IndexSchema(index),
     meta      |-> meta]

\* ram is the directory RAMDirectory::create() returns
Segment_new_unpersisted(meta, schema, ram) ==
    [schema    |-> schema,
     meta      |-> meta,
     directory |-> SegmentDirectory_Volatile(ram)]

Segment_meta(self) == self.meta

Segment_directory(self) == self.directory

\* the directory rebuilt as a Volatile one instead of moved
Segment_with_max_doc_volatile(self, max_doc) ==
    [directory |-> SegmentDirectory_Volatile(SegmentDirectory_deref(self.directory)),
     schema    |-> self.schema,
     meta      |-> SegmentMeta_with_max_doc(self.meta, max_doc)]

\* the descriptor moved as it is, the new max_doc dropped
Segment_with_max_doc_stale(self, max_doc) ==
    [directory |-> self.directory,
     schema    |-> self.schema,
     meta      |-> self.meta]

Segment_with_max_doc(self, max_doc) ==
    [directory |-> self.directory,
     schema    |-> self.schema,
     meta      |-> SegmentMeta_with_max_doc(self.meta, max_doc)]

\* the two arguments handed on in the wrong order
Segment_with_delete_meta_swapped(self, num_deleted_docs, opstamp) ==
    [directory |-> self.directory,
     schema    |-> self.schema,
     meta      |-> SegmentMeta_with_delete_meta(self.meta, opstamp, num_deleted_docs)]

Segment_with_delete_meta(self, num_deleted_docs, opstamp) ==
    [directory |-> self.directory,
     schema    |-> self.schema,
     meta      |-> SegmentMeta_with_delete_meta(self.meta, num_deleted_docs, opstamp)]

Segment_id(self) == SegmentMeta_id(self.meta)

\* the document count taken into the name of the file along with the id
Segment_relative_path_counts(self, component) ==
    SegmentMeta_relative_path(
        [self.meta EXCEPT !.id = ((self.meta.id + self.meta.max_doc - 1) % NumIds) + 1],
        component)

\* the id left out: the path is that of the component under the first id
Segment_relative_path_no_id(self, component) ==
    SegmentMeta_relative_path([self.meta EXCEPT !.id = 1], component)

Segment_relative_path(self, component) ==
    SegmentMeta_relative_path(self.meta, component)

\* the error of the directory swallowed: an empty source instead
Segment_open_read_swallows(self, component, files) ==
    LET path   == Segment_relative_path(self, component)
        source == Directory_open_read(files[SegmentDirectory_deref(self.directory)], path)
    IN  IF source.ok THEN Ok(source.val) ELSE Ok(<<>>)

\* files is the state of all stores; the result is Ok(bytes) or Err(error)
Segment_open_read(self, component, files) ==
    LET path   == Segment_relative_path(self, component)
        source == Directory_open_read(files[SegmentDirectory_deref(self.directory)], path)
    IN  IF source.ok THEN Ok(source.val) ELSE Err(source.err)

\* the path of the first component, whatever the component asked for
Segment_open_write_first(self, component, files) ==
    LET path  == Segment_relative_path(self, ComponentList[1])
        dir   == SegmentDirectory_deref(self.directory)
        write == Directory_open_write(files[dir], path)
    IN  IF write.ok
        THEN Ok([ptr   |-> [store |-> dir, path |-> path, buf |-> <<>>],
                 files |-> [files EXCEPT ![dir] = write.val]])
        ELSE Err(write.err)

\* a failed open answered by a second attempt that replaces the file
Segment_open_write_retries(self, component, files) ==
    LET path  == Segment_relative_path(self, component)
        dir   == SegmentDirectory_deref(self.directory)
        write == Directory_open_write(files[dir], path)
        again == Directory_open_write([files[dir] EXCEPT ![path] = None], path)
    IN  IF write.ok
        THEN Ok([ptr   |-> [store |-> dir, path |-> path, buf |-> <<>>],
                 files |-> [files EXCEPT ![dir] = write.val]])
        ELSE Ok([ptr   |-> [store |-> dir, path |-> path, buf |-> <<>>],
                 files |-> [files EXCEPT ![dir] = again.val]])

\* an existing file opened all the same: a second handle onto the bytes of
\* the first
Segment_open_write_shares(self, component, files) ==
    LET path  == Segment_relative_path(self, component)
        dir   == SegmentDirectory_deref(self.directory)
        write == Directory_open_write(files[dir], path)
    IN  IF write.ok
        THEN Ok([ptr   |-> [store |-> dir, path |-> path, buf |-> <<>>],
                 files |-> [files EXCEPT ![dir] = write.val]])
        ELSE Ok([ptr   |-> [store |-> dir, path |-> path, buf |-> <<>>],
                 files |-> files])

\* the result is Ok of the write handle and the stores after the open, or Err(error)
Segment_open_write(self, component, files) ==
    LET path  == Segment_relative_path(self, component)
        dir   == SegmentDirectory_deref(self.directory)
        write == Directory_open_write(files[dir], path)
    IN  IF write.ok
        THEN Ok([ptr   |-> [store |-> dir, path |-> path, buf |-> <<>>],
                 files |-> [files EXCEPT ![dir] = write.val]])
        ELSE Err(write.err)

(* ------------------------------ WritePtr ------------------------------ *)
\* the write handle buffers what is written and stores it when released
WritePtr_write(ptr, byte) == [ptr EXCEPT !.buf = Append(@, byte)]

WritePtr_release(ptr, files) ==
    [files EXCEPT ![ptr.store][ptr.path] = Some(ptr.buf)]

(* ---------------------------- SegmentEntry ---------------------------- *)
BitSet(max_value, bits) == [max_value |-> max_value, bits |-> bits]
BitSet_len(bitset) == bitset.max_value

DeleteCursor(pos) == [pos |-> pos]
DeleteCursor_advance(cursor) == [cursor EXCEPT !.pos = @ + 1]

SegmentEntry_new(segment_meta, delete_cursor, delete_bitset, directory) ==
    [meta          |-> segment_meta,
     delete_bitset |-> delete_bitset,
     delete_cursor |-> delete_cursor,
     directory     |-> directory]

\* the statements after unimplemented!() run: the directory is swapped and
\* Ok(()) returned, without any copy
SegmentEntry_persist_swaps(self, directory) ==
    [res |-> "Ok", self |-> [self EXCEPT !.directory = SegmentDirectory_Persisted(directory)]]

\* unimplemented!() panics before the assignment and before Ok(()):
\* the result is the panic and the entry as the call leaves it
SegmentEntry_persist(self, directory) ==
    [res |-> "Unimplemented", self |-> self]

SegmentEntry_delete_bitset(self) == self.delete_bitset

\* the cursor put back to the start of the delete log along with the meta
SegmentEntry_set_meta_rewinds(self, segment_meta) ==
    [self EXCEPT !.meta = segment_meta, !.delete_cursor = DeleteCursor(0)]

\* the new descriptor merged into the old one: the id of the entry stays
SegmentEntry_set_meta_merges(self, segment_meta) ==
    [self EXCEPT !.meta = [segment_meta EXCEPT !.id = self.meta.id]]

SegmentEntry_set_meta(self, segment_meta) ==
    [self EXCEPT !.meta = segment_meta]

SegmentEntry_delete_cursor(self) == self.delete_cursor

SegmentEntry_segment_id(self) == SegmentMeta_id(self.meta)

SegmentEntry_meta(self) == self.meta


(* ------------------------------- Init --------------------------------- *)
Last(op, slot, arg, res) == [op |-> op, slot |-> slot, arg |-> arg, res |-> res]

Init ==
    /\ seg      = [s \in Slots |-> None]
    /\ root     = [s \in Slots |-> 0]
    /\ ramCount = 0
    /\ fs       = [d \in Stores |-> EmptyStore]
    /\ handles  = [h \in HandleSlots |-> None]
    /\ opened   = {}
    /\ entry    = [e \in EntrySlots |-> None]
    /\ reader   = None
    /\ last     = Last("init", 0, <<>>, "Ok")

\* values are bound to the lowest free slot
FreeSlot(f, s) ==
    /\ f[s] = None
    /\ \A t \in DOMAIN f : t < s => f[t] # None

(* -------------------------- Segment actions --------------------------- *)
NewUnpersisted(s, meta, schema) ==
    /\ FreeSlot(seg, s)
    /\ ramCount < MaxSegments
    /\ seg' = [seg EXCEPT ![s] =
                 Some(Segment_new_unpersisted(meta, schema, RAMDirectory_create(ramCount)))]
    /\ root' = [root EXCEPT ![s] = s]
    /\ ramCount' = ramCount + 1
    /\ last' = Last("new_unpersisted", s, <<>>, "Ok")
    /\ UNCHANGED <<fs, handles, opened, entry, reader>>

ForIndex(s, index, meta, persisted) ==
    /\ FreeSlot(seg, s)
    /\ seg' = [seg EXCEPT ![s] = Some(Segment_for_index(index, meta, persisted))]
    /\ root' = [root EXCEPT ![s] = s]
    /\ last' = Last("for_index", s, <<index, meta, persisted>>, "Ok")
    /\ UNCHANGED <<ramCount, fs, handles, opened, entry, reader>>

\* #[derive(Clone)]: the copy holds the same fields; its directory refers to
\* the same store
CloneSegment(s, t) ==
    /\ seg[s] # None
    /\ FreeSlot(seg, t)
    /\ seg' = [seg EXCEPT ![t] = seg[s]]
    /\ root' = [root EXCEPT ![t] = root[s]]
    /\ last' = Last("clone", t, <<>>, "Ok")
    /\ UNCHANGED <<ramCount, fs, handles, opened, entry, reader>>

\* the descriptor held by reference and updated in place: every copy of the
\* segment sees the new max_doc
WithMaxDoc_in_place(s, max_doc) ==
    /\ seg[s] # None
    /\ seg' = [t \in Slots |->
                 IF seg[t] # None /\ root[t] = root[s]
                 THEN Some(Segment_with_max_doc(Unwrap(seg[t]), max_doc))
                 ELSE seg[t]]
    /\ last' = Last("with_max_doc", s, <<max_doc>>, "Ok")
    /\ UNCHANGED <<root, ramCount, fs, handles, opened, entry, reader>>

WithMaxDoc(s, max_doc) ==
    /\ seg[s] # None
    /\ seg' = [seg EXCEPT ![s] = Some(Segment_with_max_doc(Unwrap(seg[s]), max_doc))]
    /\ last' = Last("with_max_doc", s, <<max_doc>>, "Ok")
    /\ UNCHANGED <<root, ramCount, fs, handles, opened, entry, reader>>

WithDeleteMeta(s, num_deleted_docs, opstamp) ==
    /\ seg[s] # None
    /\ seg' = [seg EXCEPT ![s] =
                 Some(Segment_with_delete_meta(Unwrap(seg[s]), num_deleted_docs, opstamp))]
    /\ last' = Last("with_delete_meta", s, <<num_deleted_docs, opstamp>>, "Ok")
    /\ UNCHANGED <<root, ramCount, fs, handles, opened, entry, reader>>

OpenRead(s, component) ==
    /\ seg[s] # None
    /\ LET source == Segment_open_read(Unwrap(seg[s]), component, fs)
       IN  last' = Last("open_read", s, <<component>>,
                        IF source.ok THEN "Ok" ELSE source.err)
    /\ UNCHANGED <<seg, root, ramCount, fs, handles, opened, entry, reader>>

\* h is the slot that keeps the handle when the call returns one
OpenWrite(s, component, h) ==
    /\ seg[s] # None
    /\ LET write == Segment_open_write(Unwrap(seg[s]), component, fs)
       IN  IF write.ok
           THEN /\ FreeSlot(handles, h)
                /\ fs' = write.val.files
                /\ handles' = [handles EXCEPT ![h] =
                                 Some([ptr |-> write.val.ptr, slot |-> s,
                                       component |-> component])]
                /\ opened' = opened \cup {<<root[s], component>>}
                /\ last' = Last("open_write", s, <<component>>, "Ok")
           ELSE /\ h = 1
                /\ last' = Last("open_write", s, <<component>>, write.err)
                /\ UNCHANGED <<fs, handles, opened>>
    /\ UNCHANGED <<seg, root, ramCount, entry, reader>>

Write(h, byte) ==
    /\ handles[h] # None
    /\ Len(Unwrap(handles[h]).ptr.buf) < MaxLen
    /\ handles' = [handles EXCEPT ![h] =
                     Some([Unwrap(handles[h]) EXCEPT !.ptr = WritePtr_write(@, byte)])]
    /\ last' = Last("write", 0, <<>>, "Ok")
    /\ UNCHANGED <<seg, root, ramCount, fs, opened, entry, reader>>

Release(h) ==
    /\ handles[h] # None
    /\ LET held == Unwrap(handles[h])
       IN  /\ fs' = WritePtr_release(held.ptr, fs)
           /\ last' = Last("release", held.slot, <<held.component, held.ptr.buf>>, "Ok")
    /\ handles' = [handles EXCEPT ![h] = None]
    /\ UNCHANGED <<seg, root, ramCount, opened, entry, reader>>

(* ------------------------ SegmentEntry actions ------------------------ *)
\* the bitsets an entry of a segment of max_doc documents is built with
BitSets(max_doc) ==
    { BitSet(max_doc, bits) : bits \in SUBSET (0..(max_doc - 1)) }

EntryBitSets(s) ==
    IF seg[s] = None THEN {}
    ELSE {None} \cup { Some(b) : b \in BitSets(Segment_meta(Unwrap(seg[s])).max_doc) }

\* the orchestrator wraps the descriptor and the directory of a segment
NewEntry(e, s, pos, delete_bitset) ==
    /\ seg[s] # None
    /\ FreeSlot(entry, e)
    /\ entry' = [entry EXCEPT ![e] =
                   Some(SegmentEntry_new(Segment_meta(Unwrap(seg[s])), DeleteCursor(pos),
                                         delete_bitset,
                                         Segment_directory(Unwrap(seg[s]))))]
    /\ last' = Last("new", e, <<>>, "Ok")
    /\ UNCHANGED <<seg, root, ramCount, fs, handles, opened, reader>>

Persist(e, index) ==
    /\ entry[e] # None
    /\ LET done == SegmentEntry_persist(Unwrap(entry[e]), IndexDirectory(index))
       IN  /\ entry' = [entry EXCEPT ![e] = Some(done.self)]
           /\ last' = Last("persist", e, <<index>>, done.res)
    /\ reader' = IF reader # None /\ Unwrap(reader).entry = e
                 THEN Some([Unwrap(reader) EXCEPT !.persists =
                             @ \/ (0 < Len(Unwrap(reader).served)
                                   /\ Len(Unwrap(reader).served) < Len(ComponentList))])
                 ELSE reader
    /\ UNCHANGED <<seg, root, ramCount, fs, handles, opened>>

SetMeta(e, segment_meta) ==
    /\ entry[e] # None
    /\ entry' = [entry EXCEPT ![e] =
                   Some(SegmentEntry_set_meta(Unwrap(entry[e]), segment_meta))]
    /\ last' = Last("set_meta", e, <<segment_meta>>, "Ok")
    /\ UNCHANGED <<seg, root, ramCount, fs, handles, opened, reader>>

\* a consumer advances the cursor through the reference delete_cursor() returns
AdvanceCursor(e) ==
    /\ entry[e] # None
    /\ SegmentEntry_delete_cursor(Unwrap(entry[e])).pos < MaxCursor
    /\ entry' = [entry EXCEPT ![e] =
                   Some([Unwrap(entry[e]) EXCEPT !.delete_cursor =
                           DeleteCursor_advance(@)])]
    /\ last' = Last("delete_cursor", e, <<>>, "Ok")
    /\ UNCHANGED <<seg, root, ramCount, fs, handles, opened, reader>>

(* ------------------------------ a reader ------------------------------ *)
\* a reader opens the components of the segment of an entry one after the
\* other, each through the directory the entry holds at that moment
ReaderBegin(e) ==
    /\ entry[e] # None
    /\ reader = None
    /\ reader' = Some([entry |-> e, served |-> <<>>, persists |-> FALSE])
    /\ last' = Last("reader_begin", e, <<>>, "Ok")
    /\ UNCHANGED <<seg, root, ramCount, fs, handles, opened, entry>>

ReaderRead ==
    /\ reader # None
    /\ Len(Unwrap(reader).served) < Len(ComponentList)
    /\ LET r         == Unwrap(reader)
           en        == Unwrap(entry[r.entry])
           component == ComponentList[Len(r.served) + 1]
           source    == Segment_open_read([meta |-> en.meta, directory |-> en.directory],
                                          component, fs)
       IN  /\ reader' = Some([r EXCEPT !.served = Append(@, en.directory)])
           /\ last' = Last("open_read", r.entry, <<component>>,
                           IF source.ok THEN "Ok" ELSE source.err)
    /\ UNCHANGED <<seg, root, ramCount, fs, handles, opened, entry>>

ReaderEnd ==
    /\ reader # None
    /\ Len(Unwrap(reader).served) = Len(ComponentList)
    /\ reader' = None
    /\ last' = Last("reader_end", Unwrap(reader).entry, <<>>, "Ok")
    /\ UNCHANGED <<seg, root, ramCount, fs, handles, opened, entry>>

(* --------------------------- specifications --------------------------- *)
\* The descriptor of a Segment, the descriptor and transient state of a
\* SegmentEntry, and the component files act on separate parts of the state.
\* Each specification runs the operations of one part over all their inputs
\* and the operations of the other parts over what that part needs.

\* the one Segment slot of the specifications without clones, and the one
\* handle slot of those with a single writer
One == {1}

\* the descriptors of a segment that has no deletes recorded yet
FreshMetas == { m \in ValidMetas : m.num_deleted_docs = 0 /\ m.opstamp = 0 }

\* SpecMeta: the descriptor operations of a Segment and of a SegmentEntry
NextMeta ==
    \/ \E s \in One, meta \in ValidMetas, schema \in Schemas :
          NewUnpersisted(s, meta, schema)
    \/ \E s \in One, index \in Indexes, meta \in ValidMetas, persisted \in BOOLEAN :
          ForIndex(s, index, meta, persisted)
    \/ \E s \in One, max_doc \in Docs : WithMaxDoc(s, max_doc)
    \/ \E s \in One, n \in Docs, opstamp \in Opstamps : WithDeleteMeta(s, n, opstamp)
    \/ \E e \in EntrySlots, s \in One, pos \in 0..MaxCursor :
          \E bitset \in EntryBitSets(s) : NewEntry(e, s, pos, bitset)
    \/ \E e \in EntrySlots, index \in Indexes : Persist(e, index)
    \/ \E e \in EntrySlots, m \in ValidMetas : SetMeta(e, m)
    \/ \E e \in EntrySlots : AdvanceCursor(e)

SpecMeta == Init /\ [][NextMeta]_vars

\* SpecFiles: the component files of one Segment, written and read with
\* every byte sequence, while its max_doc is set
NextFiles ==
    \/ \E s \in One, meta \in FreshMetas, schema \in Schemas :
          NewUnpersisted(s, meta, schema)
    \/ \E s \in One, index \in Indexes, meta \in FreshMetas, persisted \in BOOLEAN :
          ForIndex(s, index, meta, persisted)
    \/ \E s \in One, max_doc \in Docs : WithMaxDoc(s, max_doc)
    \/ \E s \in One, c \in Components : OpenRead(s, c)
    \/ \E s \in One, c \in Components, h \in HandleSlots : OpenWrite(s, c, h)
    \/ \E h \in HandleSlots, b \in Bytes : Write(h, b)
    \/ \E h \in HandleSlots : Release(h)

SpecFiles == Init /\ [][NextFiles]_vars

\* SpecSegment: every descriptor update of one Segment, with component
\* files written (one byte value) in between
NextSegment ==
    \/ \E s \in One, meta \in ValidMetas, schema \in Schemas :
          NewUnpersisted(s, meta, schema)
    \/ \E s \in One, index \in Indexes, meta \in ValidMetas, persisted \in BOOLEAN :
          ForIndex(s, index, meta, persisted)
    \/ \E s \in One, max_doc \in Docs : WithMaxDoc(s, max_doc)
    \/ \E s \in One, n \in Docs, opstamp \in Opstamps : WithDeleteMeta(s, n, opstamp)
    \/ \E s \in One, c \in Components, h \in HandleSlots : OpenWrite(s, c, h)
    \/ \E h \in HandleSlots : Write(h, 1)
    \/ \E h \in HandleSlots : Release(h)

SpecSegment == Init /\ [][NextSegment]_vars

\* SpecPersist: a SegmentEntry of a Segment with component files, persist
\* calls on it, and a reader going through its components
NextPersist ==
    \/ \E s \in One, meta \in FreshMetas, schema \in Schemas :
          NewUnpersisted(s, meta, schema)
    \/ \E s \in One, index \in Indexes, meta \in FreshMetas, persisted \in BOOLEAN :
          ForIndex(s, index, meta, persisted)
    \/ \E s \in One, c \in Components, h \in HandleSlots : OpenWrite(s, c, h)
    \/ \E h \in HandleSlots : Write(h, 1)
    \/ \E h \in HandleSlots : Release(h)
    \/ \E e \in EntrySlots, s \in One :
          \E bitset \in EntryBitSets(s) : NewEntry(e, s, 0, bitset)
    \/ \E e \in EntrySlots, index \in Indexes : Persist(e, index)
    \/ \E e \in EntrySlots : ReaderBegin(e)
    \/ ReaderRead
    \/ ReaderEnd

SpecPersist == Init /\ [][NextPersist]_vars

\* Spec: every operation of the layer on one Segment and the SegmentEntry
\* built from it, the way a segment is taken through its life: created with
\* a fresh descriptor of max_doc 0, written, its max_doc set, deletes
\* recorded, the entry's descriptor replaced by the segment's
Next ==
    \/ \E s \in One, meta \in { m \in FreshMetas : m.max_doc = 0 }, schema \in Schemas :
          NewUnpersisted(s, meta, schema)
    \/ \E s \in One, index \in Indexes, persisted \in BOOLEAN :
          \E meta \in { m \in FreshMetas : m.max_doc = 0 } :
             ForIndex(s, index, meta, persisted)
    \/ \E s \in One : WithMaxDoc(s, MaxDoc)
    \/ \E s \in One : WithDeleteMeta(s, 0, MaxOpstamp)
    \/ \E s \in One, c \in Components : OpenRead(s, c)
    \/ \E s \in One, c \in Components, h \in HandleSlots : OpenWrite(s, c, h)
    \/ \E h \in HandleSlots : Write(h, 1)
    \/ \E h \in HandleSlots : Release(h)
    \/ \E e \in EntrySlots, s \in One : NewEntry(e, s, 0, None)
    \/ \E e \in EntrySlots, index \in Indexes : Persist(e, index)
    \/ \E e \in EntrySlots, s \in One :
          seg[s] # None /\ SetMeta(e, Segment_meta(Unwrap(seg[s])))
    \/ \E e \in EntrySlots : AdvanceCursor(e)

Spec == Init /\ [][Next]_vars

\* the descriptors of a segment that has not been written yet
NewMetas == { m \in FreshMetas : m.max_doc = 0 }

\* the two Segment slots of the specifications with more than one Segment:
\* a segment and its copy, or two segments of their own
Two == {1, 2}

\* SpecCopies: a Segment and a copy of it, each taken through its
\* descriptor updates, with component files written through either
NextCopies ==
    \/ \E s \in One, meta \in NewMetas : NewUnpersisted(s, meta, 0)
    \/ \E s \in One, index \in Indexes, meta \in NewMetas, persisted \in BOOLEAN :
          ForIndex(s, index, meta, persisted)
    \/ \E s \in Two, t \in Two : CloneSegment(s, t)
    \/ \E s \in Two : WithMaxDoc(s, MaxDoc)
    \/ \E s \in Two : WithDeleteMeta(s, 0, MaxOpstamp)
    \/ \E s \in Two, c \in Components, h \in One : OpenWrite(s, c, h)
    \/ \E h \in One :
          handles[h] # None /\ Unwrap(handles[h]).ptr.buf = <<>> /\ Write(h, 1)
    \/ \E h \in One : Release(h)

SpecCopies == Init /\ [][NextCopies]_vars

\* SpecShared: two Segments of their own, in one store or in different
\* ones, their component files written and read
NextShared ==
    \/ \E s \in Two, meta \in NewMetas : NewUnpersisted(s, meta, 0)
    \/ \E s \in Two, index \in Indexes, meta \in NewMetas, persisted \in BOOLEAN :
          ForIndex(s, index, meta, persisted)
    \/ \E s \in Two, c \in Components : OpenRead(s, c)
    \/ \E s \in Two, c \in Components, h \in One : OpenWrite(s, c, h)
    \/ \E h \in One :
          handles[h] # None /\ Unwrap(handles[h]).ptr.buf = <<>> /\ Write(h, 1)
    \/ \E h \in One : Release(h)

SpecShared == Init /\ [][NextShared]_vars

\* SpecEntry: the SegmentEntry of one Segment: built with every cursor
\* position and bitset, its descriptor replaced by every valid one, its
\* cursor advanced, persist called on it
NextEntry ==
    \/ \E s \in One, meta \in FreshMetas : NewUnpersisted(s, meta, 0)
    \/ \E s \in One, index \in Indexes, meta \in FreshMetas, persisted \in BOOLEAN :
          ForIndex(s, index, meta, persisted)
    \/ \E e \in EntrySlots, s \in One, pos \in 0..MaxCursor :
          \E bitset \in EntryBitSets(s) : NewEntry(e, s, pos, bitset)
    \/ \E e \in EntrySlots, index \in Indexes : Persist(e, index)
    \/ \E e \in EntrySlots, m \in ValidMetas : SetMeta(e, m)
    \/ \E e \in EntrySlots : AdvanceCursor(e)

SpecEntry == Init /\ [][NextEntry]_vars

\* SpecWriters: one Segment and callers that keep more than one write handle
\* at a time, opening components for write while handles are held
WriterSlots == 1..(MaxHandles + 1)

InitWriters ==
    /\ seg      = [s \in Slots |-> None]
    /\ root     = [s \in Slots |-> 0]
    /\ ramCount = 0
    /\ fs       = [d \in Stores |-> EmptyStore]
    /\ handles  = [h \in WriterSlots |-> None]
    /\ opened   = {}
    /\ entry    = [e \in EntrySlots |-> None]
    /\ reader   = None
    /\ last     = Last("init", 0, <<>>, "Ok")

NextWriters ==
    \/ \E s \in One, meta \in NewMetas : NewUnpersisted(s, meta, 0)
    \/ \E s \in One, index \in Indexes, meta \in NewMetas, persisted \in BOOLEAN :
          ForIndex(s, index, meta, persisted)
    \/ \E s \in One, c \in Components, h \in WriterSlots : OpenWrite(s, c, h)
    \/ \E h \in WriterSlots, b \in Bytes : Write(h, b)
    \/ \E h \in WriterSlots : Release(h)

SpecWriters == InitWriters /\ [][NextWriters]_vars

(* ----------------------------- properties ------------------------------ *)
VariantStep(d, d2) ==
    \/ d2.variant = d.variant
    \/ d.variant = "Volatile" /\ d2.variant = "Persisted"

\* C1: over every operation of the layer, the active directory variant of a
\* Segment and of a SegmentEntry either stays what it is or goes from Volatile
\* to Persisted; it never goes from Persisted to Volatile (so it changes at
\* most once).
C1_VariantOnlyVolatileToPersisted ==
    [][ /\ \A s \in Slots :
             (seg[s] # None /\ seg'[s] # None) =>
                VariantStep(Unwrap(seg[s]).directory, Unwrap(seg'[s]).directory)
        /\ \A e \in EntrySlots :
             (entry[e] # None /\ entry'[e] # None) =>
                VariantStep(Unwrap(entry[e]).directory, Unwrap(entry'[e]).directory)
      ]_vars

\* persist has run on a Volatile entry whose segment got its max_doc
C1_Witness ==
    /\ last.op = "persist"
    /\ Unwrap(entry[last.slot]).directory.variant = "Volatile"
    /\ seg[1] # None
    /\ Unwrap(seg[1]).meta.max_doc = MaxDoc
    /\ Unwrap(seg[1]).directory.variant = "Volatile"

\* C2: every call of SegmentEntry::persist fails (its result is never Ok) and
\* leaves the entry (meta, delete_bitset, delete_cursor, directory) and the
\* contents of every store as they were before the call.
C2_PersistFailsAndChangesNothing ==
    [][ last'.op = "persist" =>
          /\ last'.res # "Ok"
          /\ entry' = entry
          /\ fs' = fs
          /\ seg' = seg
      ]_vars

\* persist has run on a Volatile entry whose store holds written bytes
C2_Witness ==
    /\ last.op = "persist"
    /\ last.res = "Unimplemented"
    /\ LET en == Unwrap(entry[last.slot])
       IN  /\ en.directory.variant = "Volatile"
           /\ \E c \in Components :
                 Segment_open_read([meta |-> en.meta, directory |-> en.directory], c, fs)
                    = Ok(<<1>>)

\* C3: the open_read calls of one reader session, with persist calls of the
\* segment's entry in between, are all answered by one and the same
\* directory: the Volatile store or the Persisted one, never some components
\* by one and some by the other.
C3_ReaderSeesOneDirectory ==
    reader # None =>
        \A i, j \in 1..Len(Unwrap(reader).served) :
            Unwrap(reader).served[i] = Unwrap(reader).served[j]

\* a session has read every component with a persist between two reads
C3_Witness ==
    /\ reader # None
    /\ Unwrap(reader).persists
    /\ Len(Unwrap(reader).served) = Len(ComponentList)
    /\ Unwrap(reader).served[1].variant = "Volatile"

\* C4: when the handle open_write(component) returned has been written to
\* and released, open_read(component) on the same segment returns exactly
\* the bytes written.
C4_ReadReturnsWrittenBytes ==
    last.op = "release" =>
        Segment_open_read(Unwrap(seg[last.slot]), last.arg[1], fs) = Ok(last.arg[2])

\* differing bytes have been written up to the bound and the handle released
C4_Witness ==
    /\ last.op = "release"
    /\ Len(last.arg[2]) = MaxLen
    /\ \E i, j \in 1..Len(last.arg[2]) : last.arg[2][i] # last.arg[2][j]

\* C5: open_read on a component of a segment new_unpersisted created (the
\* only Volatile ones) fails with NotFound as long as open_write has not
\* succeeded on that component of the segment.
C5_FreshVolatileStoreIsEmpty ==
    \A s \in Slots :
        (seg[s] # None /\ Unwrap(seg[s]).directory.variant = "Volatile") =>
            \A c \in Components :
                <<root[s], c>> \notin opened =>
                    Segment_open_read(Unwrap(seg[s]), c, fs) = Err("NotFound")

\* open_read has failed with NotFound on a component never opened for write,
\* while another component of the same Volatile segment holds written bytes
C5_Witness ==
    /\ last.op = "open_read"
    /\ last.res = "NotFound"
    /\ Unwrap(seg[last.slot]).directory.variant = "Volatile"
    /\ <<root[last.slot], last.arg[1]>> \notin opened
    /\ \E c \in Components :
          /\ <<root[last.slot], c>> \in opened
          /\ Segment_open_read(Unwrap(seg[last.slot]), c, fs).ok

\* what open_read returns for every component
Readable(segment, files) ==
    [c \in Components |-> Segment_open_read(segment, c, files)]

\* C6: with_max_doc(n) yields a segment whose max_doc is n and whose id,
\* num_deleted_docs, opstamp, schema, directory and stored component bytes
\* are those of the segment it was called on.
C6_WithMaxDocSetsOnlyMaxDoc ==
    [][ last'.op = "with_max_doc" =>
          LET old == Unwrap(seg[last'.slot])
              new == Unwrap(seg'[last'.slot])
          IN  /\ new.meta.max_doc = last'.arg[1]
              /\ new.meta.id = old.meta.id
              /\ new.meta.num_deleted_docs = old.meta.num_deleted_docs
              /\ new.meta.opstamp = old.meta.opstamp
              /\ new.schema = old.schema
              /\ new.directory = old.directory
              /\ fs' = fs
              /\ Readable(new, fs') = Readable(old, fs)
      ]_vars

\* with_max_doc has set max_doc on a segment that holds written bytes
C6_Witness ==
    /\ last.op = "with_max_doc"
    /\ Unwrap(seg[last.slot]).meta.max_doc = MaxDoc
    /\ \E c \in Components :
          LET source == Segment_open_read(Unwrap(seg[last.slot]), c, fs)
          IN  source.ok /\ Len(source.val) > 0

\* C7: with_delete_meta(d, o) yields a segment whose meta reports
\* num_deleted_docs = d and opstamp = o, and whose id, max_doc, schema,
\* directory and stored component bytes are those of the segment it was
\* called on.
C7_WithDeleteMetaSetsOnlyDeletes ==
    [][ last'.op = "with_delete_meta" =>
          LET old == Unwrap(seg[last'.slot])
              new == Unwrap(seg'[last'.slot])
          IN  /\ new.meta.num_deleted_docs = last'.arg[1]
              /\ new.meta.opstamp = last'.arg[2]
              /\ new.meta.id = old.meta.id
              /\ new.meta.max_doc = old.meta.max_doc
              /\ new.schema = old.schema
              /\ new.directory = old.directory
              /\ fs' = fs
              /\ Readable(new, fs') = Readable(old, fs)
      ]_vars

\* with_delete_meta has recorded a delete on a segment that holds written bytes
C7_Witness ==
    /\ last.op = "with_delete_meta"
    /\ Unwrap(seg[last.slot]).meta.num_deleted_docs = MaxDoc
    /\ Unwrap(seg[last.slot]).meta.opstamp = 0
    /\ \E c \in Components :
          LET source == Segment_open_read(Unwrap(seg[last.slot]), c, fs)
          IN  source.ok /\ Len(source.val) > 0

\* C8: over successive with_delete_meta calls on one segment the deletion
\* opstamp of its meta never decreases: a call with a lower opstamp is
\* rejected or leaves the stored opstamp as it is.
C8_OpstampNeverDecreases ==
    [][ last'.op = "with_delete_meta" =>
          Unwrap(seg'[last'.slot]).meta.opstamp >= Unwrap(seg[last'.slot]).meta.opstamp
      ]_vars

\* C9: the meta of every Segment and of every SegmentEntry satisfies
\* num_deleted_docs <= max_doc.
C9_DeletedDocsWithinMaxDoc ==
    /\ \A s \in Slots :
          seg[s] # None =>
             Segment_meta(Unwrap(seg[s])).num_deleted_docs
                <= Segment_meta(Unwrap(seg[s])).max_doc
    /\ \A e \in EntrySlots :
          entry[e] # None =>
             SegmentEntry_meta(Unwrap(entry[e])).num_deleted_docs
                <= SegmentEntry_meta(Unwrap(entry[e])).max_doc

\* C10: when the delete_bitset of a SegmentEntry is present, its length is
\* the max_doc of the entry's meta.
C10_BitsetLengthIsMaxDoc ==
    \A e \in EntrySlots :
        (entry[e] # None /\ IsSome(SegmentEntry_delete_bitset(Unwrap(entry[e])))) =>
            BitSet_len(Unwrap(SegmentEntry_delete_bitset(Unwrap(entry[e]))))
               = SegmentEntry_meta(Unwrap(entry[e])).max_doc

\* C11: the position of the delete cursor of a SegmentEntry never decreases:
\* over every step (advancing through delete_cursor(), set_meta, persist)
\* the position the entry reports afterwards is >= the one it reported
\* before.
C11_CursorNeverGoesBack ==
    [][ \A e \in EntrySlots :
          (entry[e] # None /\ entry'[e] # None) =>
             SegmentEntry_delete_cursor(Unwrap(entry'[e])).pos
                >= SegmentEntry_delete_cursor(Unwrap(entry[e])).pos
      ]_vars

\* set_meta or persist has run on an entry whose cursor, created at position
\* 0, has been advanced to the end of the delete log
C11_Witness ==
    /\ last.op \in {"set_meta", "persist"}
    /\ SegmentEntry_delete_cursor(Unwrap(entry[last.slot])).pos = MaxCursor
    /\ MaxCursor > 0

\* C12: along the chain of values with_max_doc and with_delete_meta produce
\* from one segment, max_doc is fixed once: when with_max_doc has set it, no
\* later operation changes the segment's max_doc. Stated for the operation
\* that comes right after a with_max_doc (a later one is no different): it
\* leaves the segment's max_doc what with_max_doc set it to.
C12_MaxDocFixedOnce ==
    [][ last.op = "with_max_doc" =>
          Segment_meta(Unwrap(seg'[last.slot])).max_doc
             = Segment_meta(Unwrap(seg[last.slot])).max_doc
      ]_vars

\* what the accessors and open_read of a Segment value return
Observable(segment, files) ==
    [schema    |-> Segment_schema(segment),
     meta      |-> Segment_meta(segment),
     directory |-> Segment_directory(segment),
     id        |-> Segment_id(segment),
     read      |-> Readable(segment, files)]

\* s holds a Segment value and t a copy of it, or a value made from the copy
CopyOf(s, t) ==
    /\ s # t
    /\ seg[s] # None
    /\ seg[t] # None
    /\ root[t] = s

\* C13 (as stated): for a Segment value S and a value S' made from a copy of
\* S by with_max_doc or with_delete_meta, no later operation on S'
\* (with_max_doc, with_delete_meta, open_write, the writes through its
\* handle) changes anything observable through S: not its schema, meta,
\* directory, id, nor what open_read returns for any component.
C13_NothingSharedWithCopy ==
    [][ \A s \in Slots, t \in Slots :
          (CopyOf(s, t) /\ last'.slot = t
             /\ last'.op \in {"with_max_doc", "with_delete_meta", "open_write", "release"}) =>
                Observable(Unwrap(seg'[s]), fs') = Observable(Unwrap(seg[s]), fs)
      ]_vars

\* C13 (amended): for a Segment value S and a value S' made from a copy of S,
\* with_max_doc and with_delete_meta on S' change nothing observable through
\* S, and open_write on S' and the writes through its handle change nothing
\* of S but what open_read returns: the schema, meta, directory and id of S
\* stay, while the component files are those of the store both refer to.
C13_CopySharesOnlyTheStore ==
    [][ \A s \in Slots, t \in Slots :
          (CopyOf(s, t) /\ last'.slot = t) =>
             /\ last'.op \in {"with_max_doc", "with_delete_meta"} =>
                   Observable(Unwrap(seg'[s]), fs') = Observable(Unwrap(seg[s]), fs)
             /\ last'.op \in {"open_write", "release"} =>
                   /\ seg'[s] = seg[s]
                   /\ Segment_directory(Unwrap(seg'[t])) = Segment_directory(Unwrap(seg[s]))
      ]_vars

\* with_max_doc has run on the copy of a segment that holds written bytes:
\* the copy reports the new max_doc, the original the one it was made with
C13_Witness ==
    /\ last.op = "with_max_doc"
    /\ last.slot # root[last.slot]
    /\ seg[root[last.slot]] # None
    /\ Segment_meta(Unwrap(seg[last.slot])).max_doc = MaxDoc
    /\ Segment_meta(Unwrap(seg[root[last.slot]])).max_doc = 0
    /\ \E c \in Components :
          LET source == Segment_open_read(Unwrap(seg[root[last.slot]]), c, fs)
          IN  source.ok /\ Len(source.val) > 0

\* the Segment values of an id the constructors build: every valid meta of
\* the id, on the directory of every index or on a RAM directory
SegmentValues(id) ==
    LET metas == { m \in ValidMetas : SegmentMeta_id(m) = id }
    IN  { Segment_for_index(index, m, persisted) :
             index \in Indexes, m \in metas, persisted \in BOOLEAN }
        \cup { Segment_new_unpersisted(m, schema, RAMDirectory_create(0)) :
                   m \in metas, schema \in Schemas }

\* the paths the Segment values of an id return for a component
PathsOfId ==
    [id \in SegmentIds |->
       [c \in Components |->
          { Segment_relative_path(segment, c) : segment \in SegmentValues(id) }]]

\* C14: relative_path depends on the segment id and the component only: the
\* path a segment returns for a component, after whatever operations, is the
\* one path every Segment value of the same id returns for it, whatever that
\* value's max_doc, num_deleted_docs, opstamp and directory variant.
C14_PathOfIdAndComponent ==
    \A s \in Slots :
        seg[s] # None =>
            \A c \in Components :
                PathsOfId[Segment_id(Unwrap(seg[s]))][c]
                   = { Segment_relative_path(Unwrap(seg[s]), c) }

\* a segment created with max_doc 0 has had its max_doc set and a delete
\* recorded, and holds written bytes
C14_Witness ==
    /\ last.op = "with_delete_meta"
    /\ Segment_meta(Unwrap(seg[last.slot])).max_doc = MaxDoc
    /\ Segment_meta(Unwrap(seg[last.slot])).num_deleted_docs = MaxDoc
    /\ Segment_meta(Unwrap(seg[last.slot])).opstamp = MaxOpstamp
    /\ \E c \in Components :
          LET source == Segment_open_read(Unwrap(seg[last.slot]), c, fs)
          IN  source.ok /\ Len(source.val) > 0

\* C15: open_read and open_write fail exactly when the open of the segment's
\* directory on the path derived from (id, component) fails, and then with
\* the directory's error; each call makes one attempt on the directory: an
\* open_read leaves the stores as they are, an open_write leaves them as one
\* open of the directory leaves them (untouched when it failed).
C15_DirectoryErrorsPassedOn ==
    [][ last'.op \in {"open_read", "open_write"} =>
          LET self  == Unwrap(seg[last'.slot])
              path  == SegmentMeta_relative_path(Segment_meta(self), last'.arg[1])
              dir   == SegmentDirectory_deref(Segment_directory(self))
              read  == Directory_open_read(fs[dir], path)
              write == Directory_open_write(fs[dir], path)
          IN  /\ last'.op = "open_read" =>
                   /\ last'.res = (IF read.ok THEN "Ok" ELSE read.err)
                   /\ fs' = fs
              /\ last'.op = "open_write" =>
                   /\ last'.res = (IF write.ok THEN "Ok" ELSE write.err)
                   /\ fs' = (IF write.ok THEN [fs EXCEPT ![dir] = write.val] ELSE fs)
                   /\ ~write.ok => handles' = handles
      ]_vars

\* open_write has failed with the directory's error on a component whose
\* file holds written bytes, and the file is as it was
C15_Witness ==
    /\ last.op = "open_write"
    /\ last.res = "FileAlreadyExists"
    /\ LET source == Segment_open_read(Unwrap(seg[last.slot]), last.arg[1], fs)
       IN  source.ok /\ Len(source.val) = MaxLen

\* C16: after set_meta(m) on a SegmentEntry, meta() is m as a whole and
\* segment_id() is the id of m, nothing of the previous meta being kept; the
\* delete_bitset, the position of the delete cursor and the directory of the
\* entry are what they were before the call.
C16_SetMetaReplacesMetaOnly ==
    [][ last'.op = "set_meta" =>
          LET old == Unwrap(entry[last'.slot])
              new == Unwrap(entry'[last'.slot])
              m   == last'.arg[1]
          IN  /\ SegmentEntry_meta(new) = m
              /\ SegmentEntry_segment_id(new) = SegmentMeta_id(m)
              /\ SegmentEntry_delete_bitset(new) = SegmentEntry_delete_bitset(old)
              /\ SegmentEntry_delete_cursor(new).pos = SegmentEntry_delete_cursor(old).pos
              /\ new.directory = old.directory
      ]_vars

\* set_meta has put a descriptor of another id, with deletes recorded, on an
\* entry that holds a bitset and an advanced cursor
C16_Witness ==
    /\ last.op = "set_meta"
    /\ seg[1] # None
    /\ LET en == Unwrap(entry[last.slot])
       IN  /\ SegmentEntry_segment_id(en) # Segment_id(Unwrap(seg[1]))
           /\ SegmentEntry_meta(en).num_deleted_docs = MaxDoc
           /\ IsSome(SegmentEntry_delete_bitset(en))
           /\ SegmentEntry_delete_cursor(en).pos = MaxCursor

\* the write handles held on a component of a segment
HeldOn(segment, component, hs) ==
    { h \in DOMAIN hs :
        /\ hs[h] # None
        /\ Unwrap(hs[h]).ptr.store = SegmentDirectory_deref(Segment_directory(segment))
        /\ Unwrap(hs[h]).ptr.path = Segment_relative_path(segment, component) }

\* C17: at most one write handle is held on a (segment, component) pair at
\* any time: an open_write on a component of a segment while a write handle
\* on it is held fails with the already-exists (conflict) error, hands out no
\* handle and leaves the bytes written through the held handle, and the
\* stores, as they are.
C17_OneWriterPerComponent ==
    [][ /\ \A s \in Slots, c \in Components :
             seg'[s] # None => Cardinality(HeldOn(Unwrap(seg'[s]), c, handles')) <= 1
        /\ (last'.op = "open_write"
              /\ HeldOn(Unwrap(seg[last'.slot]), last'.arg[1], handles) # {}) =>
                /\ last'.res = "FileAlreadyExists"
                /\ handles' = handles
                /\ fs' = fs
      ]_vars

\* open_write has failed on a component while the handle held on it has
\* bytes written up to the bound, and a handle on another component is held
C17_Witness ==
    /\ last.op = "open_write"
    /\ last.res = "FileAlreadyExists"
    /\ \E h \in HeldOn(Unwrap(seg[last.slot]), last.arg[1], handles) :
          Len(Unwrap(handles[h]).ptr.buf) = MaxLen
    /\ \E c \in Components :
          /\ c # last.arg[1]
          /\ HeldOn(Unwrap(seg[last.slot]), c, handles) # {}

\* C18: for every index, every meta and either value of persisted,
\* for_index returns a Segment whose directory is the Persisted variant on
\* the directory of the index, whose meta is the meta handed in (so its id is
\* that meta's id: none is allocated) and whose schema is the schema of the
\* index; no RAM directory is created and no store is touched.
C18_ForIndexBuildsPersistedSegment ==
    [][ last'.op = "for_index" =>
          LET new   == Unwrap(seg'[last'.slot])
              index == last'.arg[1]
              meta  == last'.arg[2]
          IN  /\ Segment_directory(new) = SegmentDirectory_Persisted(IndexDirectory(index))
              /\ Segment_meta(new) = meta
              /\ Segment_id(new) = SegmentMeta_id(meta)
              /\ Segment_schema(new) = IndexSchema(index)
              /\ ramCount' = ramCount
              /\ fs' = fs
      ]_vars

\* for_index has run with persisted = FALSE on the last index and a meta of
\* the last id that records documents and deletes
C18_Witness ==
    /\ last.op = "for_index"
    /\ last.arg[1] = NumIndexes
    /\ last.arg[2] = SegmentMeta(NumIds, MaxDoc, MaxDoc, MaxOpstamp)
    /\ last.arg[3] = FALSE
    /\ Segment_directory(Unwrap(seg[last.slot])).variant = "Persisted"

\* C19: component files are kept apart by (segment id, component): opening
\* component c of a segment A for write and releasing the written handle
\* changes what open_read returns neither for another component of A nor for
\* any component of a segment of another id, in the same directory or not;
\* writing into the handle changes no store; and open_read changes no store
\* and no Segment.
C19_FilesKeptApartByIdAndComponent ==
    [][ /\ last'.op \in {"open_write", "release"} =>
             LET A == Unwrap(seg[last'.slot])
                 c == last'.arg[1]
             IN  /\ \A c2 \in Components \ {c} :
                       Segment_open_read(A, c2, fs') = Segment_open_read(A, c2, fs)
                 /\ \A t \in Slots :
                       (seg[t] # None /\ Segment_id(Unwrap(seg[t])) # Segment_id(A)) =>
                          Readable(Unwrap(seg[t]), fs') = Readable(Unwrap(seg[t]), fs)
        /\ last'.op = "write" => fs' = fs
        /\ last'.op = "open_read" => (fs' = fs /\ seg' = seg)
      ]_vars

\* a written handle on a component of a Persisted segment has been released
\* while a segment of another id in the same directory has its own, empty,
\* file of that component
C19_Witness ==
    /\ last.op = "release"
    /\ Len(last.arg[2]) > 0
    /\ \E t \in Slots :
          /\ seg[t] # None
          /\ Segment_id(Unwrap(seg[t])) # Segment_id(Unwrap(seg[last.slot]))
          /\ Segment_directory(Unwrap(seg[t])) = Segment_directory(Unwrap(seg[last.slot]))
          /\ Segment_directory(Unwrap(seg[t])).variant = "Persisted"
          /\ Segment_open_read(Unwrap(seg[t]), last.arg[1], fs) = Ok(<<>>)

\* C20: the identity of a segment handle never changes: over every
\* operation, id() of a Segment and segment_id() of a SegmentEntry report
\* after it the id they reported before it, so that they always report the
\* id of the meta the handle was created with.
C20_IdentityNeverChanges ==
    [][ /\ \A s \in Slots :
             (seg[s] # None /\ seg'[s] # None) =>
                Segment_id(Unwrap(seg'[s])) = Segment_id(Unwrap(seg[s]))
        /\ \A e \in EntrySlots :
             (entry[e] # None /\ entry'[e] # None) =>
                SegmentEntry_segment_id(Unwrap(entry'[e]))
                   = SegmentEntry_segment_id(Unwrap(entry[e]))
      ]_vars

=============================================================================
